---- MODULE Spec2Model ----
(***************************************************************************)
(* Model of Pdf2imageTool._invoke (src/tools/pdf2image.py): the generator  *)
(* that converts a batch of PDF files into one vertically stacked PNG per  *)
(* file and streams Text / Blob / Json messages to the plugin host.        *)
(*                                                                         *)
(* The PDF engine (pymupdf / fitz) and the imaging library (PIL) are the   *)
(* environment: whether a call of theirs raises, how many pages a document *)
(* has and how large a rendered page is are chosen nondeterministically at *)
(* the call.  Everything _invoke itself does is translated statement by    *)
(* statement; every yield is the end of one action.                        *)
(***************************************************************************)
EXTENDS Integers, Sequences, FiniteSets, TLC

\* ------------------------------------------------------------------ bounds
MaxFiles == 2      \* files in a batch
MaxPages == 2      \* pages the engine reports for a document
MaxDim == 2        \* largest width / height of a rendered page
MaxNameLen == 4    \* longest generated filename (specification SpecName)

\* --------------------------------------------------------------- filenames
\* A filename is a sequence of one-character strings.
Chars == {"a", "b", "."}

Str_a_pdf == <<"a", ".", "p", "d", "f">>
Str_b == <<"b">>
Str_report_pdf == <<"r", "e", "p", "o", "r", "t", ".", "p", "d", "f">>
Str_report_png == <<"r", "e", "p", "o", "r", "t", ".", "p", "n", "g">>
Str_scan_v2_pdf == <<"s", "c", "a", "n", ".", "v", "2", ".", "p", "d", "f">>
Str_scan_v2_png == <<"s", "c", "a", "n", ".", "v", "2", ".", "p", "n", "g">>
DotPng == <<".", "p", "n", "g">>

\* Filenames of the batches of Spec: one with an extension, one without.
Filenames == {Str_a_pdf, Str_b}

\* Filenames of SpecName: every string over Chars up to MaxNameLen, and the
\* two names the documentation gives as examples.
NameInputs ==
    UNION {[1..n -> Chars] : n \in 0..MaxNameLen} \cup {Str_report_pdf, Str_scan_v2_pdf}

\* Index of the first "." of s at or after position i, 0 if there is none.
RECURSIVE find_dot(_, _)
find_dot(s, i) ==
    IF i > Len(s) THEN 0
    ELSE IF s[i] = "." THEN i
    ELSE find_dot(s, i + 1)

\* Index of the last "." of s at or before position i, 0 if there is none.
RECURSIVE rfind_dot(_, _)
rfind_dot(s, i) ==
    IF i = 0 THEN 0
    ELSE IF s[i] = "." THEN i
    ELSE rfind_dot(s, i - 1)

\* Mutant of rsplit_head: split(".", 1)[0], the text before the FIRST dot.
split_head(s) ==
    LET p == find_dot(s, 1)
    IN  IF p = 0 THEN s ELSE SubSeq(s, 1, p - 1)

\* file.filename.rsplit('.', 1)[0]: the text before the last dot, or the whole
\* string when it has no dot.
rsplit_head(s) ==
    LET p == rfind_dot(s, Len(s))
    IN  IF p = 0 THEN s ELSE SubSeq(s, 1, p - 1)

\* f"{file.filename.rsplit('.', 1)[0]}.png"
png_filename(s) == rsplit_head(s) \o DotPng

\* ------------------------------------------------------------------ errors
\* str(e) of the exception a call raises, one string per raising call.
ErrOpen == "cannot open broken document"
ErrRender == "page render failed"
ErrSave == "cannot write PNG"
ErrNoFitz == "No module named 'fitz'"

\* ---------------------------------------------------------------- messages
\* Every message carries `file`, the position in the batch of the file whose
\* iteration yielded it (0 outside the loop); the host does not see it.
FmtNoFiles == "No files provided. Please upload PDF files for processing."
FmtNoPillow == "Error: Pillow library not installed. Please install it with 'pip install Pillow'."
FmtNoLibrary == "Error: Required library not installed. {}"
FmtNoPages == "No pages found in {}"
FmtError == "Error processing {}: {}"

create_text_message(i, fmt, args) ==
    [kind |-> "text", file |-> i, fmt |-> fmt, args |-> args]

\* The payload is kept as its encoding; its pixels are in image_bytes.
create_blob_message(i, bytes, mime, name) ==
    [kind |-> "blob", file |-> i, blob |-> bytes.format,
     meta |-> [mime_type |-> mime, filename |-> name]]

\* {file.filename: {"error": str(e)}}
create_json_message(i, name, err) ==
    [kind |-> "json", file |-> i, json |-> (name :> [error |-> err])]

\* ------------------------------------------------------------------- state
VARIABLES
    has_files,     \* tool_parameters.get("files") is not None
    files,         \* params.files: sequence of File, each with a filename
    installed,     \* the importable modules among pymupdf, fitz, PIL
    pc,            \* the statement _invoke executes next
    fitz_module,   \* the module bound by the import, "unset" before it
    Image,         \* TRUE once `from PIL import Image` succeeded
    idx,           \* position in files of the loop variable `file`, 0 before the loop
    page_count,    \* doc.page_count
    images,        \* list of rendered pages, each [width, height]
    total_width,   \* width of combined_image
    total_height,  \* height of combined_image
    y_offset,      \* running vertical offset of the paste loop
    pastes,        \* the (x, y) boxes handed to combined_image.paste, in order
    image_bytes,   \* the encoded composite: its format and pixel size
    e,             \* str(e) of the exception being handled, "" when none
    out,           \* the messages yielded so far
    handles,       \* per file: "none" | "open" | "closed" (the document handle)
    raised,        \* per file: the error its processing raised, "" when none
    opened_at,     \* per file: Len(out) when fitz_module.open was called, -1 before
    pages          \* per file: "unknown" | "none" | "some" (doc.page_count = 0 or > 0)

vars ==
    <<has_files, files, installed, pc, fitz_module, Image, idx, page_count, images,
      total_width, total_height, y_offset, pastes, image_bytes, e, out, handles,
      raised, opened_at, pages>>

params == <<has_files, files, installed>>
locals == <<page_count, images, total_width, total_height, y_offset, pastes, image_bytes, e>>
ghosts == <<handles, raised, opened_at, pages>>

Libs == {"pymupdf", "fitz", "PIL"}
\* Sizes get_pixmap reports.  The canvas width is a maximum, for which the
\* narrowest and the widest page suffice; heights add up, so every height occurs.
Widths == {1, MaxDim}
Heights == 1..MaxDim
NoBytes == [format |-> "", width |-> 0, height |-> 0]

File(name) == [filename |-> name]

\* Every batch of at most MaxFiles files.
Batches == UNION {[1..n -> {File(name) : name \in Filenames}] : n \in 0..MaxFiles}

Init ==
    /\ has_files \in BOOLEAN
    /\ files \in (IF has_files THEN Batches ELSE {<<>>})
    /\ installed \in SUBSET Libs
    /\ pc = "start"
    /\ fitz_module = "unset"
    /\ Image = FALSE
    /\ idx = 0
    /\ page_count = 0
    /\ images = <<>>
    /\ total_width = 0
    /\ total_height = 0
    /\ y_offset = 0
    /\ pastes = <<>>
    /\ image_bytes = NoBytes
    /\ e = ""
    /\ out = <<>>
    /\ handles = [i \in 1..Len(files) |-> "none"]
    /\ raised = [i \in 1..Len(files) |-> ""]
    /\ opened_at = [i \in 1..Len(files) |-> -1]
    /\ pages = [i \in 1..Len(files) |-> "unknown"]

\* ------------------------------------------------------------ the handler
\* Lines 27-29: the `files` key is absent (or None).
NoFilesProvided ==
    /\ pc = "start"
    /\ ~has_files
    /\ out' = Append(out, create_text_message(0, FmtNoFiles, <<>>))
    /\ pc' = "done"
    /\ UNCHANGED <<params, fitz_module, Image, idx, locals, ghosts>>

\* Lines 27, 31-32: the key is present, the parameters are parsed.
ParseParameters ==
    /\ pc = "start"
    /\ has_files
    /\ pc' = "import_pdf"
    /\ UNCHANGED <<params, fitz_module, Image, idx, locals, out, ghosts>>

\* Lines 36-41: pymupdf, or fitz when pymupdf is not importable.
ImportPdfLibrary ==
    /\ pc = "import_pdf"
    /\ "pymupdf" \in installed \/ "fitz" \in installed
    /\ fitz_module' = IF "pymupdf" \in installed THEN "pymupdf" ELSE "fitz"
    /\ pc' = "import_pil"
    /\ UNCHANGED <<params, Image, idx, locals, out, ghosts>>

\* Lines 39-40 raise ImportError, lines 109-112 handle it.
ImportPdfLibraryFails ==
    /\ pc = "import_pdf"
    /\ "pymupdf" \notin installed
    /\ "fitz" \notin installed
    /\ out' = Append(out, create_text_message(0, FmtNoLibrary, <<ErrNoFitz>>))
    /\ pc' = "done"
    /\ UNCHANGED <<params, fitz_module, Image, idx, locals, ghosts>>

\* Lines 43-44.
ImportPillow ==
    /\ pc = "import_pil"
    /\ "PIL" \in installed
    /\ Image' = TRUE
    /\ pc' = "for"
    /\ UNCHANGED <<params, fitz_module, idx, locals, out, ghosts>>

\* Mutant of ImportPillowFails: the `return` of line 49 is missing.
ImportPillowFails_no_return ==
    /\ pc = "import_pil"
    /\ "PIL" \notin installed
    /\ out' = Append(out, create_text_message(0, FmtNoPillow, <<>>))
    /\ pc' = "for"
    /\ UNCHANGED <<params, fitz_module, Image, idx, locals, ghosts>>

\* Lines 45-49.
ImportPillowFails ==
    /\ pc = "import_pil"
    /\ "PIL" \notin installed
    /\ out' = Append(out, create_text_message(0, FmtNoPillow, <<>>))
    /\ pc' = "done"
    /\ UNCHANGED <<params, fitz_module, Image, idx, locals, ghosts>>

\* Line 51: the next file.  The locals of the previous iteration are dead here
\* (each is assigned before it is read), so they are reset.
ForFile ==
    /\ pc = "for"
    /\ idx < Len(files)
    /\ idx' = idx + 1
    /\ page_count' = 0
    /\ images' = <<>>
    /\ total_width' = 0
    /\ total_height' = 0
    /\ y_offset' = 0
    /\ pastes' = <<>>
    /\ image_bytes' = NoBytes
    /\ e' = ""
    /\ pc' = "open"
    /\ UNCHANGED <<params, fitz_module, Image, out, ghosts>>

\* Line 51: the list is exhausted, the generator returns.
ForExhausted ==
    /\ pc = "for"
    /\ idx = Len(files)
    /\ pc' = "done"
    /\ UNCHANGED <<params, fitz_module, Image, idx, locals, out, ghosts>>

\* Lines 53-60: the document opens and reports its page count.
OpenDocument ==
    /\ pc = "open"
    /\ \E n \in 0..MaxPages :
           /\ page_count' = n
           /\ pages' = [pages EXCEPT ![idx] = IF n = 0 THEN "none" ELSE "some"]
    /\ images' = <<>>
    /\ handles' = [handles EXCEPT ![idx] = "open"]
    /\ opened_at' = [opened_at EXCEPT ![idx] = Len(out)]
    /\ pc' = "render"
    /\ UNCHANGED <<params, fitz_module, Image, idx, total_width, total_height,
                   y_offset, pastes, image_bytes, e, out, raised>>

\* Lines 56-57 raise: file.blob or fitz_module.open fails, no handle exists.
OpenDocumentRaises ==
    /\ pc = "open"
    /\ e' = ErrOpen
    /\ raised' = [raised EXCEPT ![idx] = ErrOpen]
    /\ opened_at' = [opened_at EXCEPT ![idx] = Len(out)]
    /\ pc' = "except"
    /\ UNCHANGED <<params, fitz_module, Image, idx, page_count, images, total_width,
                   total_height, y_offset, pastes, image_bytes, out, handles, pages>>

\* Lines 63-67: one iteration of the page loop.
RenderPage ==
    /\ pc = "render"
    /\ Len(images) < page_count
    /\ \E w \in Widths, h \in Heights :
           images' = Append(images, [width |-> w, height |-> h])
    /\ UNCHANGED <<params, pc, fitz_module, Image, idx, page_count, total_width,
                   total_height, y_offset, pastes, image_bytes, e, out, ghosts>>

\* Mutant of RenderPageRaises: the page loop swallows the error and stops
\* with the pages rendered so far.
RenderPageRaises_swallowed ==
    /\ pc = "render"
    /\ Len(images) < page_count
    /\ e' = ErrRender
    /\ raised' = [raised EXCEPT ![idx] = ErrRender]
    /\ page_count' = Len(images)
    /\ UNCHANGED <<params, pc, fitz_module, Image, idx, images, total_width,
                   total_height, y_offset, pastes, image_bytes, out, handles, opened_at,
                   pages>>

\* Lines 64-66 raise: the jump to line 101 passes over doc.close().
RenderPageRaises ==
    /\ pc = "render"
    /\ Len(images) < page_count
    /\ e' = ErrRender
    /\ raised' = [raised EXCEPT ![idx] = ErrRender]
    /\ pc' = "except"
    /\ UNCHANGED <<params, fitz_module, Image, idx, page_count, images, total_width,
                   total_height, y_offset, pastes, image_bytes, out, handles, opened_at,
                   pages>>

\* Line 70, reached when the page loop ends normally.
CloseDocument ==
    /\ pc = "render"
    /\ Len(images) = page_count
    /\ handles' = [handles EXCEPT ![idx] = "closed"]
    /\ pc' = "check"
    /\ UNCHANGED <<params, fitz_module, Image, idx, locals, out, raised, opened_at, pages>>

\* Mutant of NoPagesFound: `return` in place of `continue`.
NoPagesFound_return ==
    /\ pc = "check"
    /\ images = <<>>
    /\ out' = Append(out, create_text_message(idx, FmtNoPages, <<files[idx].filename>>))
    /\ pc' = "done"
    /\ UNCHANGED <<params, fitz_module, Image, idx, locals, ghosts>>

\* Lines 72-74.
NoPagesFound ==
    /\ pc = "check"
    /\ images = <<>>
    /\ out' = Append(out, create_text_message(idx, FmtNoPages, <<files[idx].filename>>))
    /\ pc' = "for"
    /\ UNCHANGED <<params, fitz_module, Image, idx, locals, ghosts>>

\* max(img.width for img in images), over the first n images.
RECURSIVE max_width(_, _)
max_width(imgs, n) ==
    IF n = 0 THEN 0
    ELSE LET m == max_width(imgs, n - 1)
         IN  IF imgs[n].width > m THEN imgs[n].width ELSE m

\* sum(img.height for img in images), over the first n images.
RECURSIVE sum_height(_, _)
sum_height(imgs, n) ==
    IF n = 0 THEN 0 ELSE sum_height(imgs, n - 1) + imgs[n].height

\* Lines 77-81: the canvas is sized and the paste loop starts at offset 0.
NewCanvas ==
    /\ pc = "check"
    /\ images # <<>>
    /\ total_width' = max_width(images, Len(images))
    /\ total_height' = sum_height(images, Len(images))
    /\ y_offset' = 0
    /\ pastes' = <<>>
    /\ pc' = "paste"
    /\ UNCHANGED <<params, fitz_module, Image, idx, page_count, images, image_bytes,
                   e, out, ghosts>>

\* Mutant of PasteImage: the offset advances by the width of the page.
PasteImage_by_width ==
    /\ pc = "paste"
    /\ Len(pastes) < Len(images)
    /\ pastes' = Append(pastes, [x |-> 0, y |-> y_offset])
    /\ y_offset' = y_offset + images[Len(pastes) + 1].width
    /\ UNCHANGED <<params, pc, fitz_module, Image, idx, page_count, images, total_width,
                   total_height, image_bytes, e, out, ghosts>>

\* Lines 82-84: one iteration of the paste loop.
PasteImage ==
    /\ pc = "paste"
    /\ Len(pastes) < Len(images)
    /\ pastes' = Append(pastes, [x |-> 0, y |-> y_offset])
    /\ y_offset' = y_offset + images[Len(pastes) + 1].height
    /\ UNCHANGED <<params, pc, fitz_module, Image, idx, page_count, images, total_width,
                   total_height, image_bytes, e, out, ghosts>>

\* Lines 87-90: the composite is encoded as PNG.
SaveComposite ==
    /\ pc = "paste"
    /\ Len(pastes) = Len(images)
    /\ image_bytes' = [format |-> "PNG", width |-> total_width, height |-> total_height]
    /\ pc' = "yield_blob"
    /\ UNCHANGED <<params, fitz_module, Image, idx, page_count, images, total_width,
                   total_height, y_offset, pastes, e, out, ghosts>>

\* Line 88 raises (the encoder fails), after the document was closed.
SaveCompositeRaises ==
    /\ pc = "paste"
    /\ Len(pastes) = Len(images)
    /\ e' = ErrSave
    /\ raised' = [raised EXCEPT ![idx] = ErrSave]
    /\ pc' = "except"
    /\ UNCHANGED <<params, fitz_module, Image, idx, page_count, images, total_width,
                   total_height, y_offset, pastes, image_bytes, out, handles, opened_at,
                   pages>>

\* Mutant of YieldBlob: the PNG bytes are labelled as JPEG.
YieldBlob_jpeg ==
    /\ pc = "yield_blob"
    /\ out' = Append(out, create_blob_message(idx, image_bytes, "image/jpeg",
                                              png_filename(files[idx].filename)))
    /\ pc' = "for"
    /\ UNCHANGED <<params, fitz_module, Image, idx, locals, ghosts>>

\* Mutant of YieldBlob: the result is put at the head of the stream.
YieldBlob_prepended ==
    /\ pc = "yield_blob"
    /\ out' = <<create_blob_message(idx, image_bytes, "image/png",
                                    png_filename(files[idx].filename))>> \o out
    /\ pc' = "for"
    /\ UNCHANGED <<params, fitz_module, Image, idx, locals, ghosts>>

\* Lines 93-99.
YieldBlob ==
    /\ pc = "yield_blob"
    /\ out' = Append(out, create_blob_message(idx, image_bytes, "image/png",
                                              png_filename(files[idx].filename)))
    /\ pc' = "for"
    /\ UNCHANGED <<params, fitz_module, Image, idx, locals, ghosts>>

\* Lines 101-104.
YieldErrorText ==
    /\ pc = "except"
    /\ out' = Append(out, create_text_message(idx, FmtError, <<files[idx].filename, e>>))
    /\ pc' = "except_json"
    /\ UNCHANGED <<params, fitz_module, Image, idx, locals, ghosts>>

\* Mutant of YieldErrorJson: the handler ends after the Text message.
YieldErrorJson_omitted ==
    /\ pc = "except_json"
    /\ pc' = "for"
    /\ UNCHANGED <<params, fitz_module, Image, idx, locals, out, ghosts>>

\* Lines 105-107, the end of the iteration.
YieldErrorJson ==
    /\ pc = "except_json"
    /\ out' = Append(out, create_json_message(idx, files[idx].filename, e))
    /\ pc' = "for"
    /\ UNCHANGED <<params, fitz_module, Image, idx, locals, ghosts>>

Next ==
    \/ NoFilesProvided
    \/ ParseParameters
    \/ ImportPdfLibrary
    \/ ImportPdfLibraryFails
    \/ ImportPillow
    \/ ImportPillowFails
    \/ ForFile
    \/ ForExhausted
    \/ OpenDocument
    \/ OpenDocumentRaises
    \/ RenderPage
    \/ RenderPageRaises
    \/ CloseDocument
    \/ NoPagesFound
    \/ NewCanvas
    \/ PasteImage
    \/ SaveComposite
    \/ SaveCompositeRaises
    \/ YieldBlob
    \/ YieldErrorText
    \/ YieldErrorJson

Spec == Init /\ [][Next]_vars

\* ------------------------------------------------- filename specification
\* The filename mapping over every name of NameInputs: _invoke stands at the
\* yield of line 93 for a one-file batch whose single page was composited.
InitName ==
    /\ has_files = TRUE
    /\ files \in {<<File(name)>> : name \in NameInputs}
    /\ installed = Libs
    /\ pc = "yield_blob"
    /\ fitz_module = "pymupdf"
    /\ Image = TRUE
    /\ idx = 1
    /\ page_count = 1
    /\ images = <<[width |-> 1, height |-> 1]>>
    /\ total_width = 1
    /\ total_height = 1
    /\ y_offset = 1
    /\ pastes = <<[x |-> 0, y |-> 0]>>
    /\ image_bytes = [format |-> "PNG", width |-> 1, height |-> 1]
    /\ e = ""
    /\ out = <<>>
    /\ handles = <<"closed">>
    /\ raised = <<"">>
    /\ opened_at = <<0>>
    /\ pages = <<"some">>

NextName ==
    \/ YieldBlob
    \/ ForExhausted

SpecName == InitName /\ [][NextName]_vars

\* ----------------------------------------------------------------- claims
Done == pc = "done"

\* Processing of file i has ended: the loop went past it or stands at its end.
Finished(i) == i < idx \/ (i = idx /\ pc \in {"for", "done"})

\* The messages yielded by the iteration of file i, in order.
MsgsOf(i) == SelectSeq(out, LAMBDA m : m.file = i)

FileIds == 1..Len(files)

PdfLibraryAvailable == "pymupdf" \in installed \/ "fitz" \in installed
PillowAvailable == "PIL" \in installed

IsErrorText(m, i) ==
    /\ m.kind = "text"
    /\ m.file = i
    /\ m.fmt = FmtError
    /\ m.args = <<files[i].filename, raised[i]>>

IsErrorJson(m, i) ==
    /\ m.kind = "json"
    /\ m.file = i
    /\ DOMAIN m.json = {files[i].filename}
    /\ m.json[files[i].filename] = [error |-> raised[i]]

IsNoPagesText(m, i) ==
    /\ m.kind = "text"
    /\ m.file = i
    /\ m.fmt = FmtNoPages
    /\ m.args = <<files[i].filename>>

IsPngBlob(m, i) ==
    /\ m.kind = "blob"
    /\ m.file = i
    /\ m.meta.mime_type = "image/png"

\* The message group of file i as its own name and its own fate decide it.
IsOwnGroup(g, i) ==
    IF raised[i] # "" THEN Len(g) = 2 /\ IsErrorText(g[1], i) /\ IsErrorJson(g[2], i)
    ELSE IF pages[i] = "none" THEN Len(g) = 1 /\ IsNoPagesText(g[1], i)
    ELSE Len(g) = 1 /\ IsPngBlob(g[1], i)

\* C1: a file whose decoding or rendering raises yields exactly the Text
\* "Error processing {filename}: {error}" immediately followed by the Json
\* {filename: {"error": error}}; the error stays inside _invoke, which goes on
\* to every file of the batch; and every file of the batch, before or after
\* the failing one, yields the group its own name and fate decide.
C1_ErrorIsolated ==
    /\ \A i \in FileIds :
           Finished(i) /\ raised[i] # "" =>
               \E p \in 1..(Len(out) - 1) :
                   /\ IsErrorText(out[p], i)
                   /\ IsErrorJson(out[p + 1], i)
                   /\ \A q \in 1..Len(out) : out[q].file = i => q \in {p, p + 1}
    /\ \A k \in FileIds : Finished(k) => IsOwnGroup(MsgsOf(k), k)
    /\ Done /\ Image => \A k \in FileIds : Finished(k)

C1_Witness ==
    /\ Done
    /\ Len(files) = 2
    /\ raised[1] = ErrRender
    /\ raised[2] = ""
    /\ pages[2] = "some"
    /\ Len(out) = 3

\* C2: with an empty file list, or with the `files` key absent, the output is
\* exactly one Text message and no Blob and no Json message.
C2_EmptyInputOneText ==
    Done /\ (~has_files \/ files = <<>>) => Len(out) = 1 /\ out[1].kind = "text"

\* C3: the document handle opened for a file is closed by the time processing
\* of that file ends, on every path.
C3_HandleClosed ==
    \A i \in FileIds : Finished(i) => handles[i] # "open"

\* C4: a non-empty batch whose files all decode and render without error and
\* have at least one page yields exactly one Blob per file and nothing else,
\* the k-th Blob for the k-th file, each with mime_type "image/png".
C4_OneBlobPerFile ==
    ( /\ Done
      /\ has_files
      /\ files # <<>>
      /\ \A i \in FileIds : pages[i] = "some" /\ raised[i] = "" )
    => /\ Len(out) = Len(files)
       /\ \A k \in FileIds :
              /\ out[k].kind = "blob"
              /\ out[k].file = k
              /\ out[k].blob = "PNG"
              /\ out[k].meta.mime_type = "image/png"
              /\ out[k].meta.filename = png_filename(files[k].filename)

C4_Witness ==
    /\ Done
    /\ Len(files) = 2
    /\ files[1] # files[2]
    /\ \A i \in FileIds : pages[i] = "some" /\ raised[i] = ""
    /\ Len(out) = 2

\* Sum of the heights of a list of images, from its head.
RECURSIVE HeightsFrom(_)
HeightsFrom(imgs) ==
    IF imgs = <<>> THEN 0 ELSE Head(imgs).height + HeightsFrom(Tail(imgs))

\* The canvas of the current file exists (lines 79-99).
Composing == pc \in {"paste", "yield_blob"}

\* C5: the canvas is as wide as the widest page and as high as all pages
\* together; page k is pasted at x = 0 and y = the heights of the pages before
\* it, so the pages keep their order in disjoint vertical bands, and the
\* offset after the last page is the height of the canvas.
C5_Composite ==
    Composing =>
        /\ \A k \in 1..Len(images) : images[k].width <= total_width
        /\ \E k \in 1..Len(images) : images[k].width = total_width
        /\ total_height = HeightsFrom(images)
        /\ \A k \in 1..Len(pastes) :
               /\ pastes[k].x = 0
               /\ pastes[k].y = HeightsFrom(SubSeq(images, 1, k - 1))
               /\ \A j \in 1..(k - 1) : pastes[j].y + images[j].height <= pastes[k].y
               /\ pastes[k].y + images[k].height <= total_height
        /\ y_offset = HeightsFrom(SubSeq(images, 1, Len(pastes)))
        /\ Len(pastes) = Len(images) => y_offset = total_height
        /\ pc = "yield_blob" =>
               /\ Len(pastes) = Len(images)
               /\ image_bytes.width = total_width
               /\ image_bytes.height = total_height

C5_Witness ==
    /\ pc = "yield_blob"
    /\ Len(images) = 2
    /\ images[1].width > images[2].width
    /\ images[1].height < images[2].height
    /\ pastes[2].y = images[1].height

\* C6: a file whose document has zero pages yields exactly the Text
\* "No pages found in {filename}", no Blob and no Json, and the file after it
\* is processed.
C6_NoPages ==
    \A i \in FileIds :
        Finished(i) /\ pages[i] = "none" =>
            /\ Len(MsgsOf(i)) = 1
            /\ IsNoPagesText(MsgsOf(i)[1], i)
            /\ Done /\ i < Len(files) => opened_at[i + 1] >= 0

C6_Witness ==
    /\ Done
    /\ Len(files) = 2
    /\ pages[1] = "none"
    /\ pages[2] = "some"
    /\ raised[2] = ""
    /\ Len(out) = 2

\* C7: for a non-empty batch, when the PDF library or the imaging library is
\* unavailable, _invoke yields exactly one Text message naming the missing
\* dependency and ends without opening, rendering or reporting on any file.
C7_MissingLibrary ==
    has_files /\ files # <<>> /\ ~(PdfLibraryAvailable /\ PillowAvailable) =>
        /\ idx = 0
        /\ \A i \in FileIds : handles[i] = "none" /\ opened_at[i] = -1 /\ pages[i] = "unknown"
        /\ Len(out) <= 1
        /\ Done =>
               /\ Len(out) = 1
               /\ out[1].kind = "text"
               /\ out[1].file = 0
               /\ out[1].fmt = (IF PdfLibraryAvailable THEN FmtNoPillow ELSE FmtNoLibrary)

C7_Witness ==
    /\ Done
    /\ Len(files) = 2
    /\ PdfLibraryAvailable
    /\ ~PillowAvailable
    /\ Len(out) = 1

HasDot(name) == \E k \in 1..Len(name) : name[k] = "."

\* C8: the Blob's filename is the input filename with the text from its last
\* "." on removed and ".png" appended ("report.pdf" gives "report.png",
\* "scan.v2.pdf" gives "scan.v2.png"); a name without "." is kept whole.
C8_PngFilename ==
    \A p \in 1..Len(out) :
        out[p].kind = "blob" =>
            LET name == files[out[p].file].filename
                png == out[p].meta.filename
            IN  /\ ~HasDot(name) => png = name \o DotPng
                /\ HasDot(name) =>
                       \E k \in 1..Len(name) :
                           /\ name[k] = "."
                           /\ \A j \in (k + 1)..Len(name) : name[j] # "."
                           /\ png = SubSeq(name, 1, k - 1) \o DotPng
                /\ name = Str_report_pdf => png = Str_report_png
                /\ name = Str_scan_v2_pdf => png = Str_scan_v2_png

C8_Witness ==
    /\ Len(out) = 1
    /\ out[1].kind = "blob"
    /\ files[1].filename = Str_scan_v2_pdf
    /\ out[1].meta.filename = Str_scan_v2_png

\* C9: files are processed one after the other in input order: no message of
\* a later file precedes a message of an earlier one, every message of file i
\* is in the output before the document of a later file j is opened, and at
\* the end the output is the per-file groups in input order.
C9_InputOrder ==
    /\ \A p, q \in 1..Len(out) : p < q => out[p].file <= out[q].file
    /\ \A i, j \in FileIds :
           i < j /\ opened_at[j] >= 0 =>
               /\ Finished(i)
               /\ \A p \in 1..Len(out) : out[p].file = i => p <= opened_at[j]
    /\ \A k \in FileIds : opened_at[k] >= 0 => k <= idx
    /\ \A p \in 1..Len(out) : Image => out[p].file \in 1..idx

C9_Witness ==
    /\ Done
    /\ Len(files) = 2
    /\ Len(MsgsOf(1)) = 2
    /\ Len(MsgsOf(2)) = 1
    /\ opened_at[2] = 2

Kinds(g) == [p \in 1..Len(g) |-> g[p].kind]
Blobs == {p \in 1..Len(out) : out[p].kind = "blob"}

\* C10: once both libraries are imported, every file yields exactly one of
\* [Blob], [Text "No pages found"], [Text error, Json error]; a Blob is
\* yielded only when every page of the file was rendered and pasted and
\* nothing raised; so n files yield between n and 2n messages and at most n
\* Blobs.
C10_OneGroupPerFile ==
    /\ \A i \in FileIds :
           Finished(i) =>
               LET g == MsgsOf(i)
               IN  /\ Kinds(g) \in {<<"blob">>, <<"text">>, <<"text", "json">>}
                   /\ Kinds(g) = <<"text">> => g[1].fmt = FmtNoPages
                   /\ Kinds(g) = <<"text", "json">> => g[1].fmt = FmtError
                   /\ Kinds(g) = <<"blob">> <=> (raised[i] = "" /\ pages[i] = "some")
    /\ \A p \in Blobs :
           /\ raised[out[p].file] = ""
           /\ handles[out[p].file] = "closed"
           /\ out[p].file = idx =>
                  /\ page_count >= 1
                  /\ Len(images) = page_count
                  /\ Len(pastes) = page_count
    /\ Done /\ Image =>
           /\ Len(files) <= Len(out)
           /\ Len(out) <= 2 * Len(files)
           /\ Cardinality(Blobs) <= Len(files)

C10_Witness ==
    /\ Done
    /\ Len(files) = 2
    /\ Kinds(MsgsOf(1)) = <<"blob">>
    /\ Kinds(MsgsOf(2)) = <<"text", "json">>
    /\ raised[2] = ErrSave

====
